---- MODULE Spec2Model ----
(***************************************************************************)
(* Model of the subscription tracker component `App` of src/code.jsx.      *)
(*                                                                         *)
(* The state is the component's React state (the useState cells), the      *)
(* handle kept by the live-query effect, and the three external            *)
(* collaborators as far as the component can observe them: the auth        *)
(* provider (auth.currentUser and the pending sign-in), the document store *)
(* (the documents and the attached snapshot listeners) and the promises of *)
(* the writes and report calls that are in flight.                         *)
(*                                                                         *)
(* Money: JavaScript numbers are modelled as exact rationals.  A cost is a *)
(* whole number of currency units; the two totals are kept in twelfths of  *)
(* a unit, so that cost / 12 is exact.  Floating-point rounding is not     *)
(* modelled.                                                               *)
(***************************************************************************)
EXTENDS Integers, Sequences, FiniteSets, Bags, TLC

(***************************************************************************)
(* Bounds of the model.                                                    *)
(***************************************************************************)
MaxSubmits == 2        \* valid submits (reads of `new Date()`), hence documents
MaxPending == 2        \* writes and report calls in flight at once
MaxAuthEvents == 1     \* sign-outs delivered by the auth provider
MaxSnapshot == 2       \* records of a snapshot drawn by SpecSnapshot

(***************************************************************************)
(* Values.                                                                 *)
(***************************************************************************)
Null == "null"                     \* JavaScript null (rendered "null" in a path)
NoId == 0                          \* editingId = null; document ids are 1, 2, ...
Users == {"u1", "u2"}              \* uids the auth provider can resolve
FirstUser == "u1"                  \* the first uid of a run
Names == {"Netflix"}               \* non-empty texts of the name input
CostTexts == {500}                 \* numeric texts of the cost input: "500"
Cycles == {"monthly", "yearly"}    \* the two <option> values

ErrValidation == "Please fill in both the name and cost."
ErrSave == "Failed to save subscription. Please try again."
ErrDelete == "Failed to delete subscription. Please try again."
ErrLoad == "Failed to load subscriptions from the database."
ErrReport == "Failed to generate report. Please try again later."
MsgAdded == "Subscription added successfully!"
MsgUpdated == "Subscription updated successfully!"
MsgDeleted == "Subscription deleted successfully!"
ReportText == "report text"        \* a non-empty candidates[0].content.parts[0].text

(* The value of the cost input: a string typed by the user (possibly the   *)
(* empty string) or, after startEdit, the number copied from the record.   *)
EmptyText == [kind |-> "string", empty |-> TRUE, n |-> 0]
Text(n) == [kind |-> "string", empty |-> FALSE, n |-> n]
Number(n) == [kind |-> "number", empty |-> FALSE, n |-> n]

(* JavaScript truthiness of the cost input's value: "" and 0 are falsy.    *)
Truthy(v) == IF v.kind = "string" THEN ~v.empty ELSE v.n # 0

(* parseFloat of a numeric text or of a number (which it first prints).    *)
parseFloat(v) == v.n

NoDoc == [name |-> "", cost |-> 0, cycle |-> "monthly", createdAt |-> 0]

VARIABLES
    mounted,            \* the component is mounted
    currentUser,        \* auth.currentUser
    notified,           \* the user last passed to the onAuthStateChanged callback
    signInPending,      \* a sign-in call of the callback is awaited
    authEvents,         \* sign-outs delivered so far
    userId, isAuthReady,
    loading, error, message,
    subscriptions, totalMonthlyCost, totalYearlyCost,
    formName, formCost, formCycle, editingId,
    geminiResponse,
    unsubscribe,        \* the cleanup the live-query effect returned: a listener or Null
    listeners,          \* the snapshot listeners attached to the store, by path uid
    store,              \* the documents of the store, each with its owner (path uid)
    nextId,             \* documents created so far
    clock,              \* reads of `new Date()` so far
    pending             \* bag of the writes and report calls in flight

authVars == <<currentUser, notified, signInPending, authEvents>>
sessionVars == <<userId, isAuthReady>>
statusVars == <<loading, error, message>>
listVars == <<subscriptions, totalMonthlyCost, totalYearlyCost>>
formVars == <<formName, formCost, formCycle, editingId>>
effectVars == <<unsubscribe, listeners>>
storeVars == <<store, nextId>>
vars == <<mounted, authVars, sessionVars, statusVars, listVars, formVars,
          geminiResponse, effectVars, storeVars, clock, pending>>

(***************************************************************************)
(* The aggregation of the snapshot callback (lines 79-97), in twelfths.    *)
(***************************************************************************)
monthlyCost_NoDivide(sub) == 12 * sub.cost

monthlyCost(sub) ==
    IF sub.cycle = "yearly" THEN sub.cost ELSE 12 * sub.cost

yearlyCost(sub) ==
    IF sub.cycle = "yearly" THEN 12 * sub.cost
    ELSE IF sub.cycle = "monthly" THEN 12 * (sub.cost * 12)
    ELSE 12 * sub.cost

RECURSIVE calculatedMonthlyTotal(_)
calculatedMonthlyTotal(list) ==
    IF list = <<>> THEN 0
    ELSE calculatedMonthlyTotal(SubSeq(list, 1, Len(list) - 1))
         + monthlyCost(list[Len(list)])

RECURSIVE calculatedYearlyTotal(_)
calculatedYearlyTotal(list) ==
    IF list = <<>> THEN 0
    ELSE calculatedYearlyTotal(SubSeq(list, 1, Len(list) - 1))
         + yearlyCost(list[Len(list)])

(***************************************************************************)
(* The document store.                                                     *)
(***************************************************************************)
DocsOf(uid) == {d \in store : d.owner = uid}

(* snapshot.docs.map(doc => ({id: doc.id, ...doc.data()})): the documents  *)
(* of the collection in document-id order.                                 *)
RECURSIVE DocsUpTo(_, _)
DocsUpTo(uid, k) ==
    IF k = 0 THEN <<>>
    ELSE LET rest == DocsUpTo(uid, k - 1)
             here == {d \in DocsOf(uid) : d.id = k}
         IN  IF here = {} THEN rest
             ELSE LET d == CHOOSE x \in here : TRUE
                  IN  Append(rest, [id |-> d.id, name |-> d.name, cost |-> d.cost,
                                    cycle |-> d.cycle, createdAt |-> d.createdAt])

subscriptionsList(uid) == DocsUpTo(uid, nextId)

Range(s) == {s[i] : i \in 1..Len(s)}

(***************************************************************************)
(* The live-query effect (lines 65-105).  React runs it after a render in  *)
(* which isAuthReady or userId changed: first the cleanup the previous run *)
(* returned, then the body.                                                *)
(***************************************************************************)
RECURSIVE Detach(_, _)
Detach(ls, l) ==
    IF ls = <<>> THEN <<>>
    ELSE IF Head(ls) = l THEN Tail(ls)
    ELSE <<Head(ls)>> \o Detach(Tail(ls), l)

EffectCleanup_KeepsListener(ls, unsub) == ls

EffectCleanup(ls, unsub) == IF unsub # Null THEN Detach(ls, unsub) ELSE ls

EffectGuard(ready, uid) == ready /\ uid # Null

LiveQueryEffect(ready, uid) ==
    IF <<ready, uid>> = <<isAuthReady, userId>>
    THEN UNCHANGED effectVars
    ELSE IF EffectGuard(ready, uid)
         THEN /\ listeners' = Append(EffectCleanup(listeners, unsubscribe), uid)
              /\ unsubscribe' = uid
         ELSE /\ listeners' = EffectCleanup(listeners, unsubscribe)
              /\ unsubscribe' = Null

(* setUserId(auth.currentUser?.uid || 'anonymous'); setIsAuthReady(true)   *)
ResolvedUid(user) == IF user = Null THEN "anonymous" ELSE user

SetSession(user) ==
    /\ userId' = ResolvedUid(user)
    /\ isAuthReady' = TRUE
    /\ LiveQueryEffect(TRUE, ResolvedUid(user))

(***************************************************************************)
(* Initial state: the component has mounted, both effects have run once.   *)
(***************************************************************************)
Init ==
    /\ mounted = TRUE
    /\ currentUser \in {Null, FirstUser}
    /\ notified = "none"
    /\ signInPending = FALSE
    /\ authEvents = 0
    /\ userId = Null
    /\ isAuthReady = FALSE
    /\ loading = FALSE
    /\ error = ""
    /\ message = ""
    /\ subscriptions = <<>>
    /\ totalMonthlyCost = 0
    /\ totalYearlyCost = 0
    /\ formName = ""
    /\ formCost = EmptyText
    /\ formCycle = "monthly"
    /\ editingId = NoId
    /\ geminiResponse = Null
    /\ unsubscribe = Null
    /\ listeners = <<>>
    /\ store = {}
    /\ nextId = 0
    /\ clock = 0
    /\ pending = EmptyBag

(***************************************************************************)
(* Session bootstrap (lines 41-62).                                        *)
(***************************************************************************)
(* The provider calls the callback with the current user: once after it is *)
(* registered and again whenever the signed-in user changes.               *)
AuthStateChanged ==
    /\ mounted
    /\ notified # currentUser
    /\ notified' = currentUser
    /\ IF currentUser = Null
       THEN /\ signInPending' = TRUE
            /\ UNCHANGED <<sessionVars, effectVars>>
       ELSE /\ SetSession(currentUser)
            /\ UNCHANGED signInPending
    /\ UNCHANGED <<mounted, currentUser, authEvents, statusVars,
                   listVars, formVars, geminiResponse, storeVars, clock, pending>>

(* The users a sign-in can resolve to: the token's user, or a new anonymous *)
(* user.  Uids are named in the order they first appear, so the first      *)
(* sign-in of a run yields FirstUser.                                      *)
SignInUsers == IF authEvents = 0 THEN {FirstUser} ELSE Users

(* signInWithCustomToken / signInAnonymously resolves; the callback goes   *)
(* on to lines 53-54.  The provider then calls the callback with the new   *)
(* user, which sets the same two values again: that second call is part of *)
(* this step.                                                              *)
SignInResolve ==
    /\ mounted
    /\ signInPending
    /\ \E u \in SignInUsers :
        /\ currentUser' = u
        /\ notified' = u
        /\ SetSession(u)
    /\ signInPending' = FALSE
    /\ UNCHANGED <<mounted, authEvents, statusVars,
                   listVars, formVars, geminiResponse, storeVars, clock, pending>>

SignInReject_SetsSession ==
    /\ mounted
    /\ signInPending
    /\ signInPending' = FALSE
    /\ SetSession(currentUser)
    /\ UNCHANGED <<mounted, currentUser, notified, authEvents,
                   statusVars, listVars, formVars, geminiResponse,
                   storeVars, clock, pending>>

(* The sign-in call rejects: the async callback ends in an unhandled       *)
(* rejection at line 48 or 50, lines 53-54 never run.                      *)
SignInReject ==
    /\ mounted
    /\ signInPending
    /\ signInPending' = FALSE
    /\ UNCHANGED <<mounted, currentUser, notified, authEvents,
                   sessionVars, statusVars, listVars, formVars, geminiResponse,
                   effectVars, storeVars, clock, pending>>

(* The provider signs the user out (the session is shared with other tabs) *)
(* and calls the callback with null, which starts a sign-in (lines 46-51). *)
SignedOut ==
    /\ mounted
    /\ currentUser # Null
    /\ notified = currentUser
    /\ ~signInPending
    /\ authEvents < MaxAuthEvents
    /\ authEvents' = authEvents + 1
    /\ currentUser' = Null
    /\ notified' = Null
    /\ signInPending' = TRUE
    /\ UNCHANGED <<mounted, sessionVars, statusVars, listVars, formVars,
                   geminiResponse, effectVars, storeVars, clock, pending>>

(* The component unmounts: both effects' cleanups run (lines 59-61, 103).  *)
(* React drops the component's state; what the callbacks and promise       *)
(* continuations still set afterwards has no effect, so the model stops    *)
(* here.                                                                   *)
Unmount ==
    /\ mounted
    /\ mounted' = FALSE
    /\ listeners' = EffectCleanup(listeners, unsubscribe)
    /\ unsubscribe' = Null
    /\ UNCHANGED <<authVars, sessionVars, statusVars, listVars, formVars,
                   geminiResponse, storeVars, clock, pending>>

(***************************************************************************)
(* The live query's callbacks (lines 71-101).                              *)
(***************************************************************************)
OnSnapshot_KeepsTotals(list) ==
    /\ subscriptions' = list
    /\ UNCHANGED <<totalMonthlyCost, totalYearlyCost>>

OnSnapshot(list) ==
    /\ subscriptions' = list
    /\ totalMonthlyCost' = calculatedMonthlyTotal(list)
    /\ totalYearlyCost' = calculatedYearlyTotal(list)

SnapshotDelivered ==
    /\ \E l \in Range(listeners) : OnSnapshot(subscriptionsList(l))
    /\ UNCHANGED <<mounted, authVars, sessionVars, statusVars, formVars,
                   geminiResponse, effectVars, storeVars, clock, pending>>

(* The query fails: the error callback runs (lines 98-101).  The component  *)
(* keeps its handle; whether the store delivers again is left open.        *)
SnapshotError ==
    /\ listeners # <<>>
    /\ error' = ErrLoad
    /\ UNCHANGED <<mounted, authVars, sessionVars, loading, message, listVars,
                   formVars, geminiResponse, effectVars, storeVars, clock, pending>>

(***************************************************************************)
(* The form (lines 243-264, 151-156, 272-285).                             *)
(***************************************************************************)
SetFormName ==
    /\ mounted
    /\ \E v \in Names \cup {""} : formName' = v
    /\ UNCHANGED <<mounted, authVars, sessionVars, statusVars, listVars, formCost,
                   formCycle, editingId, geminiResponse, effectVars, storeVars,
                   clock, pending>>

SetFormCost ==
    /\ mounted
    /\ \E v \in {Text(n) : n \in CostTexts} \cup {EmptyText} : formCost' = v
    /\ UNCHANGED <<mounted, authVars, sessionVars, statusVars, listVars, formName,
                   formCycle, editingId, geminiResponse, effectVars, storeVars,
                   clock, pending>>

SetFormCycle ==
    /\ mounted
    /\ \E v \in Cycles : formCycle' = v
    /\ UNCHANGED <<mounted, authVars, sessionVars, statusVars, listVars, formName,
                   formCost, editingId, geminiResponse, effectVars, storeVars,
                   clock, pending>>

startEdit(sub) ==
    /\ formName' = sub.name
    /\ formCost' = Number(sub.cost)
    /\ formCycle' = sub.cycle
    /\ editingId' = sub.id

StartEdit ==
    /\ mounted
    /\ \E sub \in Range(subscriptions) : startEdit(sub)
    /\ UNCHANGED <<mounted, authVars, sessionVars, statusVars, listVars,
                   geminiResponse, effectVars, storeVars, clock, pending>>

cancelEdit_KeepsCost ==
    /\ editingId' = NoId
    /\ formName' = ""
    /\ formCycle' = "monthly"
    /\ UNCHANGED formCost

(* The Cancel button's onClick (lines 275-280).                            *)
cancelEdit ==
    /\ editingId' = NoId
    /\ formName' = ""
    /\ formCost' = EmptyText
    /\ formCycle' = "monthly"

(* The Cancel button is rendered while editingId is truthy (line 272).     *)
CancelEdit ==
    /\ mounted
    /\ editingId # NoId
    /\ cancelEdit
    /\ UNCHANGED <<mounted, authVars, sessionVars, statusVars, listVars,
                   geminiResponse, effectVars, storeVars, clock, pending>>

(***************************************************************************)
(* Writes and report calls in flight.                                      *)
(***************************************************************************)
Op(kind, uid, id, doc) == [kind |-> kind, uid |-> uid, id |-> id, doc |-> doc]

InFlight == BagCardinality(pending)

Issue(op) == pending' = pending (+) SetToBag({op})

Settle(op) == pending' = pending (-) SetToBag({op})

PendingOps(kinds) == {op \in BagToSet(pending) : op.kind \in kinds}

(***************************************************************************)
(* handleSubmit (lines 108-148).                                           *)
(***************************************************************************)
ValidationFails_NameOnly == formName = ""

ValidationFails == formName = "" \/ ~Truthy(formCost)

newSubscription ==
    [name |-> formName, cost |-> parseFloat(formCost), cycle |-> formCycle,
     createdAt |-> clock + 1]

SubmitWrite_AlwaysAdds == Op("add", userId, NoId, newSubscription)

(* The write the handler issues at line 129 or 133, to the collection of   *)
(* the userId of the render the handler belongs to.                        *)
SubmitWrite ==
    IF editingId # NoId
    THEN Op("update", userId, editingId, newSubscription)
    ELSE Op("add", userId, NoId, newSubscription)

(* The submit button is disabled while loading (line 268).                 *)
SubmitEnabled == mounted /\ ~loading

SubmitInvalid ==
    /\ SubmitEnabled
    /\ ValidationFails
    /\ error' = ErrValidation
    /\ UNCHANGED <<mounted, authVars, sessionVars, loading, message, listVars,
                   formVars, geminiResponse, effectVars, storeVars, clock, pending>>

SubmitValid ==
    /\ SubmitEnabled
    /\ ~ValidationFails
    /\ clock < MaxSubmits
    /\ InFlight < MaxPending
    /\ loading' = TRUE
    /\ error' = ""
    /\ clock' = clock + 1
    /\ Issue(SubmitWrite)
    /\ UNCHANGED <<mounted, authVars, sessionVars, message, listVars, formVars,
                   geminiResponse, effectVars, storeVars>>

(* What updateDoc does to the document: the given fields replace the       *)
(* document's, the others stay.                                            *)
Updated(d, fields) ==
    [d EXCEPT !.name = fields.name, !.cost = fields.cost, !.cycle = fields.cycle,
              !.createdAt = fields.createdAt]

Created(op) ==
    [id |-> nextId + 1, owner |-> op.uid, name |-> op.doc.name, cost |-> op.doc.cost,
     cycle |-> op.doc.cycle, createdAt |-> op.doc.createdAt]

Target(op) == {d \in store : d.id = op.id /\ d.owner = op.uid}

ResetForm_KeepsEditTarget ==
    /\ formName' = ""
    /\ formCost' = EmptyText
    /\ formCycle' = "monthly"
    /\ UNCHANGED editingId

(* Lines 137-141.                                                          *)
ResetForm ==
    /\ formName' = ""
    /\ formCost' = EmptyText
    /\ formCycle' = "monthly"
    /\ editingId' = NoId

(* Lines 130/134 and 137-141, then the finally of line 146.                *)
SubmitSucceeded(msg) ==
    /\ message' = msg
    /\ ResetForm
    /\ loading' = FALSE
    /\ UNCHANGED error

SubmitFailed_NoFinally ==
    /\ error' = ErrSave
    /\ UNCHANGED <<loading, message, formVars>>

(* Lines 142-146.                                                          *)
SubmitFailed ==
    /\ error' = ErrSave
    /\ loading' = FALSE
    /\ UNCHANGED <<message, formVars>>

AddDocResolved ==
    /\ mounted
    /\ \E op \in PendingOps({"add"}) :
        /\ store' = store \cup {Created(op)}
        /\ nextId' = nextId + 1
        /\ Settle(op)
    /\ SubmitSucceeded(MsgAdded)
    /\ UNCHANGED <<mounted, authVars, sessionVars, listVars, geminiResponse,
                   effectVars, clock>>

(* updateDoc resolves only for a document that exists.                     *)
UpdateDocResolved ==
    /\ mounted
    /\ \E op \in PendingOps({"update"}) :
        /\ Target(op) # {}
        /\ store' = (store \ Target(op)) \cup {Updated(d, op.doc) : d \in Target(op)}
        /\ Settle(op)
    /\ SubmitSucceeded(MsgUpdated)
    /\ UNCHANGED <<mounted, authVars, sessionVars, listVars, geminiResponse,
                   effectVars, nextId, clock>>

SaveRejected ==
    /\ mounted
    /\ \E op \in PendingOps({"add", "update"}) : Settle(op)
    /\ SubmitFailed
    /\ UNCHANGED <<mounted, authVars, sessionVars, listVars, geminiResponse,
                   effectVars, storeVars, clock>>

(***************************************************************************)
(* handleDelete (lines 159-172); its button is never disabled (312-317).   *)
(***************************************************************************)
DeleteEnabled == mounted

handleDelete(id) ==
    /\ loading' = TRUE
    /\ error' = ""
    /\ Issue(Op("delete", userId, id, NoDoc))

Delete_RemovesLocally ==
    /\ DeleteEnabled
    /\ InFlight < MaxPending
    /\ \E sub \in Range(subscriptions) :
        /\ handleDelete(sub.id)
        /\ subscriptions' = SelectSeq(subscriptions, LAMBDA s : s.id # sub.id)
    /\ UNCHANGED <<mounted, authVars, sessionVars, message, totalMonthlyCost,
                   totalYearlyCost, formVars, geminiResponse, effectVars,
                   storeVars, clock>>

Delete ==
    /\ DeleteEnabled
    /\ InFlight < MaxPending
    /\ \E sub \in Range(subscriptions) : handleDelete(sub.id)
    /\ UNCHANGED <<mounted, authVars, sessionVars, message, listVars, formVars,
                   geminiResponse, effectVars, storeVars, clock>>

DeleteSucceeded_NoFinally ==
    /\ message' = MsgDeleted
    /\ UNCHANGED <<loading, error>>

(* Line 165, then the finally of line 170.                                 *)
DeleteSucceeded ==
    /\ message' = MsgDeleted
    /\ loading' = FALSE
    /\ UNCHANGED error

DeleteDocResolved ==
    /\ mounted
    /\ \E op \in PendingOps({"delete"}) :
        /\ store' = store \ Target(op)
        /\ Settle(op)
    /\ DeleteSucceeded
    /\ UNCHANGED <<mounted, authVars, sessionVars, listVars, formVars,
                   geminiResponse, effectVars, nextId, clock>>

DeleteRejected ==
    /\ mounted
    /\ \E op \in PendingOps({"delete"}) : Settle(op)
    /\ error' = ErrDelete
    /\ loading' = FALSE
    /\ UNCHANGED message
    /\ UNCHANGED <<mounted, authVars, sessionVars, listVars, formVars,
                   geminiResponse, effectVars, storeVars, clock>>

(***************************************************************************)
(* generateGeminiReport (lines 175-214); its section is rendered while the *)
(* list is non-empty (325) and its button is disabled while loading (333). *)
(***************************************************************************)
ReportEnabled == mounted /\ Len(subscriptions) > 0 /\ ~loading

GenerateReport ==
    /\ ReportEnabled
    /\ InFlight < MaxPending
    /\ loading' = TRUE
    /\ error' = ""
    /\ message' = ""
    /\ geminiResponse' = Null
    /\ Issue(Op("report", userId, NoId, NoDoc))
    /\ UNCHANGED <<mounted, authVars, sessionVars, listVars, formVars, effectVars,
                   storeVars, clock>>

(* How a report call can fail: fetch rejects, the status is not ok         *)
(* (line 197), or the body has no text at                                  *)
(* candidates[0].content.parts[0].text (lines 202-207).                    *)
ReportFailures == {"rejected", "status", "notext"}

(* Line 204, then the finally of line 212.                                 *)
ReportSucceeded ==
    /\ mounted
    /\ \E op \in PendingOps({"report"}) : Settle(op)
    /\ geminiResponse' = ReportText
    /\ loading' = FALSE
    /\ UNCHANGED <<mounted, authVars, sessionVars, error, message, listVars,
                   formVars, effectVars, storeVars, clock>>

(* Lines 208-212.                                                          *)
ReportFailed ==
    /\ mounted
    /\ \E op \in PendingOps({"report"}) : Settle(op)
    /\ \E failure \in ReportFailures : error' = ErrReport
    /\ loading' = FALSE
    /\ UNCHANGED <<mounted, authVars, sessionVars, message, listVars, formVars,
                   geminiResponse, effectVars, storeVars, clock>>

(***************************************************************************)
(* The specification.                                                      *)
(***************************************************************************)
Next ==
    \/ AuthStateChanged
    \/ SignInResolve
    \/ SignInReject
    \/ SignedOut
    \/ Unmount
    \/ SnapshotDelivered
    \/ SnapshotError
    \/ SetFormName
    \/ SetFormCost
    \/ SetFormCycle
    \/ StartEdit
    \/ CancelEdit
    \/ SubmitInvalid
    \/ SubmitValid
    \/ AddDocResolved
    \/ UpdateDocResolved
    \/ SaveRejected
    \/ Delete
    \/ DeleteDocResolved
    \/ DeleteRejected
    \/ GenerateReport
    \/ ReportSucceeded
    \/ ReportFailed

Spec == Init /\ [][Next]_vars

(* An awaited call returns: the continuation after the await of line 129,  *)
(* 133, 164 or 189 runs, on its success path or in its catch.              *)
Returns ==
    \/ AddDocResolved
    \/ UpdateDocResolved
    \/ SaveRejected
    \/ DeleteDocResolved
    \/ DeleteRejected
    \/ ReportSucceeded
    \/ ReportFailed

(* The steps of the program within one sign-in session: every step of     *)
(* Next but the provider signing the user out, which no code of the        *)
(* component triggers.                                                     *)
NextSession ==
    \/ AuthStateChanged
    \/ SignInResolve
    \/ SignInReject
    \/ Unmount
    \/ SnapshotDelivered
    \/ SnapshotError
    \/ SetFormName
    \/ SetFormCost
    \/ SetFormCycle
    \/ StartEdit
    \/ CancelEdit
    \/ SubmitInvalid
    \/ SubmitValid
    \/ AddDocResolved
    \/ UpdateDocResolved
    \/ SaveRejected
    \/ Delete
    \/ DeleteDocResolved
    \/ DeleteRejected
    \/ GenerateReport
    \/ ReportSucceeded
    \/ ReportFailed

(* One session of the program when every call it awaits eventually         *)
(* returns.                                                                *)
FairSpec == Init /\ [][NextSession]_vars /\ WF_vars(Returns)

(***************************************************************************)
(* The snapshot callback on its own: the listener is attached and the      *)
(* store delivers any snapshot of at most MaxSnapshot records, also ones   *)
(* another writer put there (any cost, any cycle string).                  *)
(***************************************************************************)
SnapshotCosts == {0, 12, 500, 1499}
SnapshotCycles == Cycles \cup {"weekly"}

SnapshotRecords(k) ==
    [id : {k}, name : Names, cost : SnapshotCosts, cycle : SnapshotCycles,
     createdAt : {1}]

SnapshotLists ==
    UNION {{list \in [1..n -> UNION {SnapshotRecords(k) : k \in 1..n}] :
                \A i \in 1..n : list[i].id = i} : n \in 0..MaxSnapshot}

InitSnapshot ==
    /\ mounted = TRUE
    /\ currentUser = FirstUser
    /\ notified = FirstUser
    /\ signInPending = FALSE
    /\ authEvents = 0
    /\ userId = FirstUser
    /\ isAuthReady = TRUE
    /\ loading = FALSE
    /\ error = ""
    /\ message = ""
    /\ subscriptions = <<>>
    /\ totalMonthlyCost = 0
    /\ totalYearlyCost = 0
    /\ formName = ""
    /\ formCost = EmptyText
    /\ formCycle = "monthly"
    /\ editingId = NoId
    /\ geminiResponse = Null
    /\ unsubscribe = FirstUser
    /\ listeners = <<FirstUser>>
    /\ store = {}
    /\ nextId = 0
    /\ clock = 0
    /\ pending = EmptyBag

SnapshotArrives ==
    /\ \E l \in Range(listeners) : \E list \in SnapshotLists : OnSnapshot(list)
    /\ UNCHANGED <<mounted, authVars, sessionVars, statusVars, formVars,
                   geminiResponse, effectVars, storeVars, clock, pending>>

NextSnapshot == SnapshotArrives

SpecSnapshot == InitSnapshot /\ [][NextSnapshot]_vars

(***************************************************************************)
(* Properties.  Amounts on the totals' side are in twelfths of a unit.     *)
(***************************************************************************)
Twelfths(units) == 12 * units

(* The equivalents of a record as section 4.3 of the specification states  *)
(* them: cost / 12 is `cost` twelfths.                                     *)
MonthlyEquivalent(sub) ==
    IF sub.cycle = "monthly" THEN Twelfths(sub.cost) ELSE sub.cost

YearlyEquivalent(sub) ==
    IF sub.cycle = "monthly" THEN Twelfths(sub.cost * 12) ELSE Twelfths(sub.cost)

RECURSIVE SumMonthly(_)
SumMonthly(list) ==
    IF list = <<>> THEN 0 ELSE MonthlyEquivalent(Head(list)) + SumMonthly(Tail(list))

RECURSIVE SumYearly(_)
SumYearly(list) ==
    IF list = <<>> THEN 0 ELSE YearlyEquivalent(Head(list)) + SumYearly(Tail(list))

BilledCycles(list) == \A i \in 1..Len(list) : list[i].cycle \in {"monthly", "yearly"}

FormIsDefault ==
    formName = "" /\ formCost = EmptyText /\ formCycle = "monthly" /\ editingId = NoId

Writes == {"add", "update", "delete"}

(* A step of handleSubmit.                                                 *)
SubmitStep == SubmitInvalid \/ SubmitValid

(* C1: a submit with an empty name or an empty cost issues no write (the   *)
(* operations in flight and the store stay as they are) and leaves a       *)
(* non-empty error, in create mode and in edit mode alike.                 *)
C1_InvalidSubmitWritesNothing ==
    [][(SubmitStep /\ (formName = "" \/ formCost = EmptyText))
         => (pending' = pending /\ store' = store /\ error' # "")]_vars

(* C1 witness: in edit mode, with the cost emptied, the submit has left    *)
(* the validation error and nothing in flight.                             *)
W_C1_InvalidSubmitInEditMode ==
    /\ error = ErrValidation
    /\ editingId # NoId
    /\ formName # ""
    /\ formCost = EmptyText
    /\ pending = EmptyBag

ExampleSnapshot ==
    <<[id |-> 1, name |-> "Netflix", cost |-> 500, cycle |-> "monthly", createdAt |-> 1],
      [id |-> 2, name |-> "Netflix", cost |-> 1499, cycle |-> "yearly", createdAt |-> 1]>>

(* C2: for a delivered snapshot whose records are all monthly or yearly,   *)
(* totalMonthly is the sum of (cost if monthly, else cost/12) and          *)
(* totalYearly the sum of (cost*12 if monthly, else cost); the snapshot    *)
(* {500 monthly, 1499 yearly} gives 7499 yearly and 500 + 1499/12 monthly. *)
C2_TotalsOfSnapshot ==
    /\ BilledCycles(subscriptions) =>
         /\ totalMonthlyCost = SumMonthly(subscriptions)
         /\ totalYearlyCost = SumYearly(subscriptions)
    /\ subscriptions = ExampleSnapshot =>
         /\ totalYearlyCost = Twelfths(7499)
         /\ totalMonthlyCost = Twelfths(500) + 1499

(* C2 witness: the example snapshot has been delivered.                    *)
W_C2_ExampleDelivered ==
    /\ subscriptions = ExampleSnapshot
    /\ totalYearlyCost = Twelfths(7499)

(* C3: in every reachable state the two totals are the aggregate of the    *)
(* in-memory list, and both are 0 while the list is empty.                 *)
C3_TotalsFollowList ==
    /\ totalMonthlyCost = SumMonthly(subscriptions)
    /\ totalYearlyCost = SumYearly(subscriptions)
    /\ subscriptions = <<>> => (totalMonthlyCost = 0 /\ totalYearlyCost = 0)

(* C3 witness: a two-record list with a yearly record is shown while a     *)
(* write is in flight and after a record of the store was deleted.         *)
W_C3_TotalsAmidWrites ==
    /\ Len(subscriptions) = 2
    /\ \E i \in 1..2 : subscriptions[i].cycle = "yearly"
    /\ totalMonthlyCost > 0
    /\ loading
    /\ message = MsgDeleted

(* A delete button is rendered for every record of the list (312-317).    *)
DeleteOffered == DeleteEnabled /\ subscriptions # <<>>

(* C4: while loading is true no trigger of submit, delete or report is     *)
(* enabled, so at most one write or report call is in flight.              *)
C4_OneOperationAtATime ==
    /\ loading => ~(SubmitEnabled \/ DeleteOffered \/ ReportEnabled)
    /\ InFlight <= 1

SubmitSucceeds == AddDocResolved \/ UpdateDocResolved

(* C5 as claimed: whenever a validated submit completes, the write having  *)
(* succeeded or been rejected, the form is in its default state.           *)
C5_FormResetOnCompletion ==
    [][(SubmitSucceeds \/ SaveRejected) => FormIsDefault']_vars

(* C5 as amended: whenever a validated submit completes with the write     *)
(* succeeded, the form is in its default state whatever it held before; a  *)
(* rejected write leaves the form and the edit target as they are.         *)
C5_FormResetOnSuccess ==
    [][/\ SubmitSucceeds => FormIsDefault'
       /\ SaveRejected => UNCHANGED formVars]_vars

(* C5 witness: an update has succeeded and left the default form.          *)
W_C5_UpdateSucceeded ==
    /\ message = MsgUpdated
    /\ FormIsDefault
    /\ ~loading
    /\ pending = EmptyBag

(* C6: a record's createdAt (and id) never changes once the record is      *)
(* created; a submit in edit mode writes name, cost and cycle only.        *)
C6_CreatedAtSetOnce ==
    [][\A d \in store : \A e \in store' :
          (e.id = d.id) => (e.createdAt = d.createdAt /\ e.owner = d.owner)]_vars

(* C7: start-edit sets an edit target (so Cancel is offered) and cancel    *)
(* leaves the default form; neither issues a write, changes a record of    *)
(* the store or changes the in-memory list.                                *)
C7_StartEditThenCancel ==
    [][/\ StartEdit => /\ editingId' # NoId
                       /\ UNCHANGED <<store, pending, subscriptions>>
       /\ CancelEdit => /\ FormIsDefault'
                        /\ UNCHANGED <<store, pending, subscriptions>>]_vars

(* C7 witness: a record was copied into the form and Cancel is offered.    *)
W_C7_EditStarted ==
    /\ editingId # NoId
    /\ formName # ""
    /\ formCost.kind = "number"
    /\ \E i \in 1..Len(subscriptions) : subscriptions[i].id = editingId
    /\ ENABLED CancelEdit

(* C8: when a report call fails (no success status, or no text in the      *)
(* body) the report error is set and no report text is stored afterwards.  *)
C8_FailedReportStoresNothing ==
    [][ReportFailed => (error' = ErrReport /\ geminiResponse' = Null)]_vars

(* C9: no live query is open and no write is in flight before the session  *)
(* is ready with a user id; each is addressed to a resolved user id.       *)
C9_StoreUseOnlyWhenReady ==
    /\ (listeners # <<>> \/ PendingOps(Writes) # {}) => (isAuthReady /\ userId # Null)
    /\ \A op \in PendingOps(Writes) : op.uid # Null
    /\ \A l \in Range(listeners) : l = userId

(* C10: at most one live-query listener is attached, it is the one of the  *)
(* current user id, and none is attached once the component is unmounted.  *)
C10_AtMostOneListener ==
    /\ Len(listeners) <= 1
    /\ listeners # <<>> => (listeners = <<userId>> /\ unsubscribe = userId)
    /\ ~mounted => listeners = <<>>

(* C10 witness: the user id changed and the listener of the new user is    *)
(* the one attached.                                                       *)
W_C10_ListenerMoved ==
    /\ authEvents = 1
    /\ userId = "u2"
    /\ listeners = <<"u2">>

(* The steps in which an operation reports an outcome other than a write's *)
(* success: validation failure, write failure, read failure, report.       *)
ReportsOutcome ==
    \/ SubmitInvalid
    \/ SaveRejected
    \/ DeleteRejected
    \/ SnapshotError
    \/ ReportSucceeded
    \/ ReportFailed

(* C11: at most one of the error string and the success-message string is  *)
(* non-empty, and a success message is gone once the next operation        *)
(* (validation failure, write failure, read failure or report) has         *)
(* reported its outcome.                                                   *)
C11_OneTransientMessage ==
    [][/\ error' = "" \/ message' = ""
       /\ ReportsOutcome => message' = ""]_vars

(* The empty-state message is rendered (line 289).                         *)
EmptyStateShown == subscriptions = <<>> /\ ~loading

(* C12: when the store held exactly one subscription and the user deleted  *)
(* it, then once the delete has completed and the snapshot of the emptied  *)
(* collection has been delivered (nothing else being in flight), both      *)
(* totals are 0 and the empty-state message is shown.                      *)
C12_DeletingTheOnlyRecord ==
    (/\ mounted
     /\ message = MsgDeleted
     /\ pending = EmptyBag
     /\ listeners = <<userId>>
     /\ DocsOf(userId) = {}
     /\ subscriptions = subscriptionsList(userId))
        => (totalMonthlyCost = 0 /\ totalYearlyCost = 0 /\ EmptyStateShown)

(* C12 witness: one record was ever created, it is deleted, the snapshot   *)
(* of the empty collection is delivered and the empty state is shown.      *)
W_C12_OnlyRecordDeleted ==
    /\ mounted
    /\ nextId = 1
    /\ store = {}
    /\ message = MsgDeleted
    /\ pending = EmptyBag
    /\ listeners = <<userId>>
    /\ EmptyStateShown
    /\ totalMonthlyCost = 0

(* C13: the in-memory list and both totals change only in a step that      *)
(* delivers a snapshot; submit (valid or invalid, succeeding or failing),  *)
(* delete, start-edit, cancel-edit, report generation and a read failure   *)
(* of the live query leave them as they are.                               *)
C13_ListOwnedBySnapshot ==
    [][(listVars' # listVars) =>
         /\ SnapshotDelivered
         /\ ~(\/ SubmitStep \/ SubmitSucceeds \/ SaveRejected
              \/ Delete \/ DeleteDocResolved \/ DeleteRejected
              \/ StartEdit \/ CancelEdit
              \/ GenerateReport \/ ReportSucceeded \/ ReportFailed
              \/ SnapshotError)]_vars

(* C13 witness: the delete of the user's last record has succeeded in the  *)
(* store and the list in memory still shows it, no snapshot having come.   *)
W_C13_StaleListAfterDelete ==
    /\ mounted
    /\ message = MsgDeleted
    /\ pending = EmptyBag
    /\ listeners = <<userId>>
    /\ DocsOf(userId) = {}
    /\ subscriptions # <<>>
    /\ totalMonthlyCost # 0

(* The ids of the documents in the store, per owner.                       *)
StoredIds(st) == {<<d.owner, d.id>> : d \in st}

(* C14: a valid submit issues exactly one write and touches nothing in the *)
(* store itself; with an edit target set the write is an update addressed  *)
(* to that id, and when it is applied the store holds the same records as  *)
(* before (none is added); with no edit target the write is a create, and  *)
(* when it is applied every record that existed is still there unmodified  *)
(* and one record is new.                                                  *)
C14_OneWriteByEditTarget ==
    [][/\ SubmitValid =>
            /\ store' = store
            /\ \E op \in BagToSet(pending') :
                /\ pending' = pending (+) SetToBag({op})
                /\ op.kind = IF editingId # NoId THEN "update" ELSE "add"
                /\ op.id = editingId
       /\ UpdateDocResolved => StoredIds(store') = StoredIds(store)
       /\ AddDocResolved =>
            /\ store \subseteq store'
            /\ Cardinality(store') = Cardinality(store) + 1]_vars

(* C14 witness: a submit in edit mode has issued its update, addressed to  *)
(* the edit target, a record of the store.                                 *)
W_C14_UpdateIssued ==
    /\ mounted
    /\ loading
    /\ editingId # NoId
    /\ InFlight = 1
    /\ \E op \in PendingOps({"update"}) : op.id = editingId /\ Target(op) # {}

(* The completing step has set the operation's result or an error.         *)
OutcomeSet ==
    \/ message \in {MsgAdded, MsgUpdated, MsgDeleted}
    \/ geminiResponse = ReportText
    \/ error \in {ErrSave, ErrDelete, ErrReport}

(* C15: when every awaited call eventually returns, a component that is    *)
(* loading eventually is not loading any more (or has been unmounted);     *)
(* each return of a call clears loading and has set the operation's        *)
(* success result or an error message; and loading is never true when no   *)
(* operation is in flight.                                                 *)
C15_PendingReturnsToIdle ==
    /\ (mounted /\ loading) ~> (~loading \/ ~mounted)
    /\ [][Returns => (~loading' /\ OutcomeSet')]_vars
    /\ [](pending = EmptyBag => ~loading)

(* C15 witness: a submit got past validation, its write was rejected, and  *)
(* the component is idle again with the error set and nothing in flight.   *)
W_C15_ReturnedToIdle ==
    /\ mounted
    /\ clock > 0
    /\ ~loading
    /\ pending = EmptyBag
    /\ error = ErrSave

(* The sign-in started by the first call of the auth callback is rejected. *)
StartupRejection == SignInReject /\ authEvents = 0

(* The startup sign-in has been rejected: the callback was called with no  *)
(* user, its sign-in is over, and nobody is signed in.                     *)
StartupRejected ==
    /\ authEvents = 0
    /\ notified = Null
    /\ currentUser = Null
    /\ ~signInPending

(* C16: the step in which the startup sign-in is rejected sets neither the *)
(* error nor the message; from then on the component stays in that         *)
(* condition, the readiness flag is false, the user id is unset and no     *)
(* live query is open.                                                     *)
C16_RejectedSignInIsSilent ==
    [][/\ (StartupRejection \/ StartupRejected) =>
            /\ StartupRejected'
            /\ ~isAuthReady'
            /\ userId' = Null
            /\ listeners' = <<>>
            /\ unsubscribe' = Null
       /\ StartupRejection => UNCHANGED <<error, message>>]_vars

(* C16 witness: the startup sign-in has been rejected and the component,   *)
(* still mounted, is not ready and shows no error.                         *)
W_C16_StartupRejected ==
    /\ mounted
    /\ StartupRejected
    /\ ~isAuthReady
    /\ userId = Null
    /\ listeners = <<>>
    /\ error = ""

(* The ids of the subscriptions in the in-memory list.                     *)
ListedIds == {subscriptions[i].id : i \in 1..Len(subscriptions)}

(* C17: whenever an edit target is set, it is the id of a subscription in  *)
(* the current in-memory list.                                             *)
C17_EditTargetIsListed == editingId # NoId => editingId \in ListedIds

====
